---- MODULE Spec2Model ----
(***************************************************************************)
(* Model of the scalar reverse-mode autograd engine of autograd.py: Value  *)
(* nodes, the AddOp / SubOp / MulOp operators, the PassThroughOp of        *)
(* test_autograd.py, and the two-pass (setup, calc) backward traversal as  *)
(* a call-stack machine with one step per statement group between calls.   *)
(* Floats are modelled by integers (all values used are small integers,    *)
(* on which float64 arithmetic is exact).                                  *)
(***************************************************************************)
EXTENDS Integers, Sequences, FiniteSets, TLC

VARIABLES
    nodes,    \* the Value objects, in creation order: _v, _requires_grad, grad, _op, _backprop_count
    ops,      \* the Operator objects, in creation order: kind, _in1, _in2, backprop_count, out
    built,    \* number of constructor / operator / forward() calls the program has made
    stack,    \* the Python call stack of the backward() in flight
    status,   \* "idle" | "running" | "error" (AssertionError or AttributeError raised)
    root,     \* history: the Value the last backward() was called on (0: none yet)
    passNo,   \* history: number of backward() calls started
    fresh,    \* history: every grad was None when the last backward() started
    pre,      \* history: nodes as they were when the last backward() started
    vh,       \* history, per Value, of the last backward(): reg, recv, sum, fwd
    oh,       \* history, per Operator, of the last backward(): setups, calcs, gin, sent
    got,      \* history, per Value: backprop_calc was ever invoked on it
    suspended, \* the call stack of a second thread's backward(), suspended (<<>>: none)
    calls     \* history: the method calls the program has made on the engine, in order

vars == <<nodes, ops, built, stack, status, root, passNo, fresh, pre, vh, oh, got,
          suspended, calls>>

\* ---------------------------------------------------------------- bounds
MaxBuild == 2
MaxBackward == 2

LeafVals == {2, 3}
RawFloats == {3}
GradOutputs == {1, 2}

\* ---------------------------------------------------------------- values
\* Optional[float] / Optional[Operator]: None is <<>>, a float x is <<x>>;
\* an absent operator reference is 0.
None == <<>>
Some(x) == <<x>>
NoOp == 0

IsBinary(kind) == kind \in {"add", "sub", "mul"}

\* Value.__init__
Value(v, requires_grad, op) ==
    [_v |-> v, _requires_grad |-> requires_grad, grad |-> None,
     _op |-> op, _backprop_count |-> 0]

\* BinaryOp.__init__ / UnaryOp.__init__ / PassThroughOp.__init__
\* (out: the Value forward() returned; _in2 = 0 for a unary operator)
Operator(kind, in1, in2, out) ==
    [kind |-> kind, _in1 |-> in1, _in2 |-> in2, backprop_count |-> 0, out |-> out]

\* Mutant: the result requires gradients only if both operands do.
BinaryOp_requires_grad_both(ns, in1, in2) ==
    ns[in1]._requires_grad /\ ns[in2]._requires_grad

\* BinaryOp.requires_grad
BinaryOp_requires_grad(ns, in1, in2) ==
    ns[in1]._requires_grad \/ ns[in2]._requires_grad

\* The arithmetic of AddOp.forward / SubOp.forward / MulOp.forward
ForwardValue(kind, v1, v2) ==
    CASE kind = "add" -> v1 + v2
      [] kind = "sub" -> v1 - v2
      [] kind = "mul" -> v1 * v2

\* A graph is [nodes, ops, built]; the constructors below return the new graph.
EmptyGraph == [nodes |-> <<>>, ops |-> <<>>, built |-> 0]

\* Value(v, requires_grad=rg): a leaf
NewValue(g, v, rg) ==
    [nodes |-> Append(g.nodes, Value(v, rg, NoOp)), ops |-> g.ops,
     built |-> g.built + 1]

\* Mutant: the result is also stored into the left operand (in-place update).
BinaryForward_inplace(g, kind, in1, in2) ==
    LET rg == BinaryOp_requires_grad(g.nodes, in1, in2)
        o  == Len(g.ops) + 1
        op == IF rg THEN o ELSE NoOp
        v  == ForwardValue(kind, g.nodes[in1]._v, g.nodes[in2]._v)
    IN [nodes |-> Append([g.nodes EXCEPT ![in1]._v = v], Value(v, rg, op)),
        ops   |-> Append(g.ops, Operator(kind, in1, in2, Len(g.nodes) + 1)),
        built |-> g.built + 1]

\* AddOp(in1, in2).forward(), SubOp(...).forward(), MulOp(...).forward()
BinaryForward(g, kind, in1, in2) ==
    LET rg == BinaryOp_requires_grad(g.nodes, in1, in2)
        o  == Len(g.ops) + 1
        op == IF rg THEN o ELSE NoOp
        v  == ForwardValue(kind, g.nodes[in1]._v, g.nodes[in2]._v)
    IN [nodes |-> Append(g.nodes, Value(v, rg, op)),
        ops   |-> Append(g.ops, Operator(kind, in1, in2, Len(g.nodes) + 1)),
        built |-> g.built + 1]

\* Value.__add__ / __sub__ / __mul__ with a Value on the right
ValueOp(g, kind, self, other) == BinaryForward(g, kind, self, other)

\* Mutant: the float is coerced into a leaf that requires gradients.
ValueOpFloat_differentiable(g, kind, self, f) ==
    LET g1 == [NewValue(g, f, TRUE) EXCEPT !.built = g.built]
    IN BinaryForward(g1, kind, self, Len(g1.nodes))

\* Value.__add__ / __sub__ / __mul__ with a raw float on the right:
\* other = Value(other), then the operator's forward()
ValueOpFloat(g, kind, self, f) ==
    LET g1 == [NewValue(g, f, FALSE) EXCEPT !.built = g.built]
    IN BinaryForward(g1, kind, self, Len(g1.nodes))

\* PassThroughOp(in1).forward()
PassThroughForward(g, in1) ==
    LET o == Len(g.ops) + 1
    IN [nodes |-> Append(g.nodes,
                         Value(g.nodes[in1]._v, g.nodes[in1]._requires_grad, o)),
        ops   |-> Append(g.ops, Operator("pass", in1, 0, Len(g.nodes) + 1)),
        built |-> g.built + 1]

\* ---------------------------------------------------------------- test graphs
\* The graphs the functions of test_autograd.py build, built by the same
\* constructors in the order the test code evaluates them.

\* test_simple_add_backprop: out = a + b
Test_simple_add ==
    LET g1 == NewValue(EmptyGraph, 3, TRUE)
        g2 == NewValue(g1, 2, TRUE)
    IN ValueOp(g2, "add", 1, 2)

\* test_simple_multiop_backprop: out = a - b + c * d
Test_simple_multiop ==
    LET g1 == NewValue(EmptyGraph, 2, TRUE)
        g2 == NewValue(g1, 3, TRUE)
        g3 == NewValue(g2, 4, TRUE)
        g4 == NewValue(g3, 5, TRUE)
        g5 == ValueOp(g4, "sub", 1, 2)
        g6 == ValueOp(g5, "mul", 3, 4)
    IN ValueOp(g6, "add", 5, 6)

\* test_short_multipath_backprop: out = (a + Value(3.0)) * (a * Value(4.0))
Test_short_multipath ==
    LET g1 == NewValue(EmptyGraph, 2, TRUE)
        g2 == NewValue(g1, 3, FALSE)
        g3 == ValueOp(g2, "add", 1, 2)
        g4 == NewValue(g3, 4, FALSE)
        g5 == ValueOp(g4, "mul", 1, 4)
    IN ValueOp(g5, "mul", 3, 5)

\* test_long_multipath_backprop: b = PassThroughOp(a).forward(); out = (b + 4) * (b + 5)
Test_long_multipath ==
    LET g1 == NewValue(EmptyGraph, 2, TRUE)
        g2 == PassThroughForward(g1, 1)
        g3 == NewValue(g2, 4, FALSE)
        g4 == ValueOp(g3, "add", 2, 3)
        g5 == NewValue(g4, 5, FALSE)
        g6 == ValueOp(g5, "add", 2, 5)
    IN ValueOp(g6, "mul", 4, 6)

\* test_long_multipath_backprop2: b = a * 1.0; c = PassThroughOp(b).forward();
\* out = (c * 3.0) + (c * 4.0)
Test_long_multipath2 ==
    LET g1 == NewValue(EmptyGraph, 2, TRUE)
        g2 == ValueOpFloat(g1, "mul", 1, 1)
        g3 == PassThroughForward(g2, 3)
        g4 == ValueOpFloat(g3, "mul", 4, 3)
        g5 == ValueOpFloat(g4, "mul", 4, 4)
    IN ValueOp(g5, "add", 6, 8)

\* test_no_requires_grad: out = a + b with b not differentiable
Test_no_requires_grad ==
    LET g1 == NewValue(EmptyGraph, 2, TRUE)
        g2 == NewValue(g1, 3, FALSE)
    IN ValueOp(g2, "add", 1, 2)

\* test_value_mul: v = Value(2.0); v * 3.0; v * Value(3.0), with v built
\* with requires_grad = rg (the test leaves it at the default, False)
Test_value_mul(rg) ==
    LET g1 == NewValue(EmptyGraph, 2, rg)
        g2 == ValueOpFloat(g1, "mul", 1, 3)
        g3 == NewValue(g2, 3, FALSE)
    IN ValueOp(g3, "mul", 1, 4)

\* x = a * 3.0; out = x + x, x - x or x * x: one Value as both operands of a
\* BinaryOp (BinaryOp.__init__ stores whatever two Values it is given)
SameOperandGraph(kind) ==
    LET g1 == NewValue(EmptyGraph, 2, TRUE)
        g2 == ValueOpFloat(g1, "mul", 1, 3)
    IN ValueOp(g2, kind, 3, 3)

\* PassThroughOp(Value(2.0)).forward(): a UnaryOp on a Value built with the
\* default requires_grad = False
PassThroughOfPlainValue == PassThroughForward(NewValue(EmptyGraph, 2, FALSE), 1)

TestGraphs ==
    {Test_simple_add, Test_simple_multiop, Test_short_multipath,
     Test_long_multipath, Test_long_multipath2, Test_no_requires_grad,
     Test_value_mul(FALSE), Test_value_mul(TRUE)}
        \cup {SameOperandGraph(kind) : kind \in {"add", "sub", "mul"}}
        \cup {PassThroughOfPlainValue}

\* ---------------------------------------------------------------- history
NodeHist == [reg |-> 0, recv |-> 0, sum |-> 0, fwd |-> None]
OpHist == [setups |-> 0, calcs |-> 0, gin |-> None, sent |-> <<>>]

FreshNodeHist(n) == [i \in 1..n |-> NodeHist]
FreshOpHist(n) == [i \in 1..n |-> OpHist]

\* ---------------------------------------------------------------- initial states
\* Nothing constructed yet, or the graph of one of the tests just built.
Init ==
    /\ \E g \in {EmptyGraph} \cup TestGraphs :
          /\ nodes = g.nodes
          /\ ops = g.ops
          /\ built = g.built
          /\ vh = FreshNodeHist(Len(g.nodes))
          /\ oh = FreshOpHist(Len(g.ops))
          /\ got = [i \in 1..Len(g.nodes) |-> FALSE]
    /\ stack = <<>>
    /\ status = "idle"
    /\ root = 0
    /\ passNo = 0
    /\ fresh = FALSE
    /\ pre = <<>>
    /\ suspended = <<>>
    /\ calls = <<>>

\* ---------------------------------------------------------------- graph construction
\* Statements of the program that run between backward() calls.
Graph == [nodes |-> nodes, ops |-> ops, built |-> built]

\* Install graph g, which extends the current one, and extend the histories.
Construct(g) ==
    /\ status = "idle"
    /\ g.built <= MaxBuild
    /\ nodes' = g.nodes
    /\ ops' = g.ops
    /\ built' = g.built
    /\ vh' = vh \o [i \in 1..(Len(g.nodes) - Len(nodes)) |-> NodeHist]
    /\ oh' = oh \o [i \in 1..(Len(g.ops) - Len(ops)) |-> OpHist]
    /\ got' = got \o [i \in 1..(Len(g.nodes) - Len(nodes)) |-> FALSE]
    /\ UNCHANGED <<stack, status, root, passNo, fresh, pre, suspended, calls>>

\* a = Value(v, requires_grad=rg)
Value_init ==
    \E v \in LeafVals, rg \in BOOLEAN :
        Construct(NewValue(Graph, v, rg))

\* self + other, self - other, self * other, other a Value
Value_arith ==
    \E kind \in {"add", "sub", "mul"}, self \in 1..Len(nodes), other \in 1..Len(nodes) :
        Construct(ValueOp(Graph, kind, self, other))

\* self + f, self - f, self * f, f a raw float
Value_arith_float ==
    \E kind \in {"add", "sub", "mul"}, self \in 1..Len(nodes), f \in RawFloats :
        Construct(ValueOpFloat(Graph, kind, self, f))

\* PassThroughOp(in1).forward()
PassThroughOp_forward ==
    \E in1 \in 1..Len(nodes) :
        Construct(PassThroughForward(Graph, in1))

\* ---------------------------------------------------------------- call stack
\* An entry of calls: the method, the object it was called on (a Value or an
\* Operator index) and what is known of the call when it is made.
MethodCall(call, self, result) == [call |-> call, self |-> self, result |-> result]

\* A frame is [fn, self, pc, g]: the method, the object it runs on (a Value
\* index or an Operator index), the position in its body (the number of
\* calls it has made) and its grad_output argument (0 where it has none).
Frame(fn, self, g) == [fn |-> fn, self |-> self, pc |-> 0, g |-> g]

\* Mutant: an operand given twice is registered once.
LastPc_distinct(f) ==
    CASE f.fn = "backward" -> 2
      [] f.fn = "v_setup"  -> 1
      [] f.fn = "v_calc"   -> 1
      [] f.fn = "o_setup"  ->
            IF IsBinary(ops[f.self].kind) /\ ops[f.self]._in1 # ops[f.self]._in2
            THEN 2 ELSE 1
      [] f.fn = "o_calc"   ->
            IF IsBinary(ops[f.self].kind) THEN 2 ELSE 1

\* The number of calls the method makes on its straight path; a frame that
\* has made them all only has its return left.
LastPc(f) ==
    CASE f.fn = "backward" -> 2
      [] f.fn = "v_setup"  -> 1
      [] f.fn = "v_calc"   -> 1
      [] f.fn \in {"o_setup", "o_calc"} ->
            IF IsBinary(ops[f.self].kind) THEN 2 ELSE 1

\* Mutant: only the callee returns; its caller is never resumed.
Return_callee(s) ==
    IF s = <<>> THEN s
    ELSE IF s[Len(s)].pc = LastPc(s[Len(s)])
         THEN SubSeq(s, 1, Len(s) - 1)
         ELSE s

RECURSIVE Return(_)
\* Pop every frame that has nothing left to do but return.
Return(s) ==
    IF s = <<>> THEN s
    ELSE IF s[Len(s)].pc = LastPc(s[Len(s)])
         THEN Return(SubSeq(s, 1, Len(s) - 1))
         ELSE s

Top == stack[Len(stack)]

\* The caller makes its next call: its pc advances and the callee is pushed.
Call(s, f) == Append([s EXCEPT ![Len(s)].pc = @ + 1], f)

\* The top frame finishes without a further call.
Finish(s) == Return([s EXCEPT ![Len(s)].pc = LastPc(s[Len(s)])])

StatusOf(s) == IF s = <<>> THEN "idle" ELSE "running"

Running(fn) == status = "running" /\ stack # <<>> /\ Top.fn = fn

\* ---------------------------------------------------------------- Value
\* Value.backward, up to and including its call of self.backprop_setup()
Value_backward ==
    \E self \in 1..Len(nodes) :
        /\ status = "idle"
        /\ passNo < MaxBackward
        /\ stack' = Call(<<Frame("backward", self, 0)>>, Frame("v_setup", self, 0))
        /\ status' = "running"
        /\ root' = self
        /\ passNo' = passNo + 1
        /\ fresh' = (\A n \in 1..Len(nodes) : nodes[n].grad = None)
        /\ pre' = nodes
        /\ vh' = FreshNodeHist(Len(nodes))
        /\ oh' = FreshOpHist(Len(ops))
        /\ calls' = Append(calls, MethodCall("backward", self, "sequential"))
        /\ UNCHANGED <<nodes, ops, built, got, suspended>>

\* Value.backward, the call of self.backprop_calc(1.0)
Value_backward_calc ==
    /\ Running("backward")
    /\ Top.pc = 1
    /\ stack' = Call(stack, Frame("v_calc", Top.self, 1))
    /\ UNCHANGED <<nodes, ops, built, status, root, passNo, fresh, pre, suspended, calls, vh, oh, got>>

\* Mutant: every registration recurses into the producer.
SetupRecurses_always(count, op) == op # NoOp

\* The condition under which Value.backprop_setup recurses into the producer
SetupRecurses(count, op) == count = 1 /\ op # NoOp

\* Value.backprop_setup
Value_backprop_setup ==
    /\ Running("v_setup")
    /\ LET self  == Top.self
           count == nodes[self]._backprop_count + 1
           op    == nodes[self]._op
       IN /\ nodes' = [nodes EXCEPT ![self]._backprop_count = count]
          /\ vh' = [vh EXCEPT ![self].reg = @ + 1]
          /\ stack' = IF SetupRecurses(count, op)
                      THEN Call(stack, Frame("o_setup", op, 0))
                      ELSE Finish(stack)
    /\ status' = StatusOf(stack')
    /\ UNCHANGED <<ops, built, root, passNo, fresh, pre, suspended, calls, oh, got>>

\* Mutant: contributions are accumulated whatever requires_grad says.
Accumulates_always(requires_grad) == TRUE

\* Whether Value.backprop_calc accumulates the contribution at all
Accumulates(requires_grad) == requires_grad

\* Mutant: every contribution is forwarded to the producer at once.
CalcForwards_eager(count, op) == op # NoOp

\* The condition under which Value.backprop_calc forwards to the producer
CalcForwards(count, op) == count = 0 /\ op # NoOp

\* Mutant: grad_output is assigned, not added.
NewGrad_assigned(grad, grad_output) == grad_output

\* Value.backprop_calc: grad after "if self.grad is None: self.grad = 0.0"
\* and "self.grad += grad_output"
NewGrad(grad, grad_output) ==
    (IF grad = None THEN 0 ELSE grad[1]) + grad_output

\* Mutant: the assertion is gone.
AssertionHolds_always(count) == TRUE

\* Value.backprop_calc: assert self._backprop_count >= 0
AssertionHolds(count) == count >= 0

\* Value.backprop_calc
Value_backprop_calc ==
    /\ Running("v_calc")
    /\ LET self == Top.self
           me   == nodes[self]
           grad == NewGrad(me.grad, Top.g)
           count == me._backprop_count - 1
       IN /\ got' = [got EXCEPT ![self] = TRUE]
          /\ IF ~Accumulates(me._requires_grad)
             THEN /\ stack' = Finish(stack)
                  /\ status' = StatusOf(stack')
                  /\ UNCHANGED <<nodes, vh>>
             ELSE /\ nodes' = [nodes EXCEPT ![self].grad = Some(grad),
                                            ![self]._backprop_count = count]
                  /\ IF ~AssertionHolds(count)
                     THEN \* assert self._backprop_count >= 0 fails: the
                          \* AssertionError unwinds every frame
                          /\ stack' = <<>>
                          /\ status' = "error"
                          /\ vh' = [vh EXCEPT ![self].recv = @ + 1,
                                              ![self].sum = @ + Top.g]
                     ELSE IF CalcForwards(count, me._op)
                     THEN /\ stack' = Call(stack, Frame("o_calc", me._op, grad))
                          /\ status' = "running"
                          /\ vh' = [vh EXCEPT ![self].recv = @ + 1,
                                              ![self].sum = @ + Top.g,
                                              ![self].fwd = Some(grad)]
                     ELSE /\ stack' = Finish(stack)
                          /\ status' = StatusOf(stack')
                          /\ vh' = [vh EXCEPT ![self].recv = @ + 1,
                                              ![self].sum = @ + Top.g]
    /\ UNCHANGED <<ops, built, root, passNo, fresh, pre, suspended, calls, oh>>

\* ---------------------------------------------------------------- Operator
\* Mutant: the setup registers _in1 twice and _in2 never.
SetupOperand_in1(o, pc) == ops[o]._in1

\* The operand that call number pc of BinaryOp / UnaryOp.backprop_setup registers
SetupOperand(o, pc) == IF pc = 0 THEN ops[o]._in1 ELSE ops[o]._in2

\* Mutant: both contributions go to _in1.
CalcOperand_in1(o, pc) == ops[o]._in1

\* The operand that call number pc of an operator's backprop_calc contributes to
CalcOperand(o, pc) == IF pc = 0 THEN ops[o]._in1 ELSE ops[o]._in2

\* BinaryOp.backprop_setup: one call per step
BinaryOp_backprop_setup ==
    /\ Running("o_setup")
    /\ IsBinary(ops[Top.self].kind)
    /\ stack' = Call(stack, Frame("v_setup", SetupOperand(Top.self, Top.pc), 0))
    /\ oh' = [oh EXCEPT ![Top.self].setups = @ + (IF Top.pc = 0 THEN 1 ELSE 0)]
    /\ UNCHANGED <<nodes, ops, built, status, root, passNo, fresh, pre, suspended, calls, vh, got>>

\* UnaryOp.backprop_setup
UnaryOp_backprop_setup ==
    /\ Running("o_setup")
    /\ ~IsBinary(ops[Top.self].kind)
    /\ stack' = Call(stack, Frame("v_setup", SetupOperand(Top.self, 0), 0))
    /\ oh' = [oh EXCEPT ![Top.self].setups = @ + 1]
    /\ UNCHANGED <<nodes, ops, built, status, root, passNo, fresh, pre, suspended, calls, vh, got>>

\* Mutant: MulOp multiplies by the operand's own value.
Contribution_own(kind, pc, g, v1, v2) ==
    CASE kind = "add"  -> g
      [] kind = "sub"  -> IF pc = 0 THEN g ELSE -g
      [] kind = "mul"  -> IF pc = 0 THEN g * v1 ELSE g * v2
      [] kind = "pass" -> g

\* Mutant: SubOp passes grad_output unnegated to _in2.
Contribution_unsigned(kind, pc, g, v1, v2) ==
    CASE kind = "add"  -> g
      [] kind = "sub"  -> g
      [] kind = "mul"  -> IF pc = 0 THEN g * v2 ELSE g * v1
      [] kind = "pass" -> g

\* The argument of the backprop_calc call number pc (0: on _in1, 1: on _in2)
\* of AddOp / SubOp / MulOp / PassThroughOp.backprop_calc(g); v1 and v2 are
\* _in1.item() and _in2.item().
Contribution(kind, pc, g, v1, v2) ==
    CASE kind = "add"  -> g
      [] kind = "sub"  -> IF pc = 0 THEN g ELSE -g
      [] kind = "mul"  -> IF pc = 0 THEN g * v2 ELSE g * v1
      [] kind = "pass" -> g

\* One call of an operator's backprop_calc body: the next operand's
\* backprop_calc with its contribution.
Distribute(kind) ==
    /\ Running("o_calc")
    /\ ops[Top.self].kind = kind
    /\ LET o  == Top.self
           v1 == nodes[ops[o]._in1]._v
           v2 == IF IsBinary(kind) THEN nodes[ops[o]._in2]._v ELSE 0
           c  == Contribution(kind, Top.pc, Top.g, v1, v2)
           to == CalcOperand(o, Top.pc)
       IN /\ stack' = Call(stack, Frame("v_calc", to, c))
          /\ oh' = [oh EXCEPT ![o].calcs = @ + (IF Top.pc = 0 THEN 1 ELSE 0),
                              ![o].gin = Some(Top.g),
                              ![o].sent = Append(@, <<to, c>>)]
    /\ UNCHANGED <<nodes, built, status, root, passNo, fresh, pre, suspended, calls, vh, got>>

\* AddOp.backprop_calc
AddOp_backprop_calc == Distribute("add") /\ UNCHANGED ops

\* SubOp.backprop_calc
SubOp_backprop_calc == Distribute("sub") /\ UNCHANGED ops

\* MulOp.backprop_calc
MulOp_backprop_calc == Distribute("mul") /\ UNCHANGED ops

\* PassThroughOp.backprop_calc
PassThroughOp_backprop_calc ==
    /\ Distribute("pass")
    /\ ops' = [ops EXCEPT ![Top.self].backprop_count = @ + 1]

\* ---------------------------------------------------------------- specification
\* ---------------------------------------------------------------- rejected operands
\* What the right-hand operand of +, -, * can be besides a Value or a float.
OtherOperands == {"int", "str", "NoneType"}

\* Mutant: the operand is coerced into a leaf as a float is.
ValueOpOther_coerced(g, kind, self, other) ==
    [ValueOpFloat(g, kind, self, 3) EXCEPT !.built = g.built]

\* Value.__add__ / __sub__ / __mul__ with any other right-hand operand:
\* "assert isinstance(other, Value)" fails before an Operator is constructed.
ValueOpOther(g, kind, self, other) == g

\* self + other, self - other, self * other, other neither a Value nor a float
Value_arith_other ==
    \E kind \in {"add", "sub", "mul"}, self \in 1..Len(nodes), other \in OtherOperands :
        LET g == ValueOpOther(Graph, kind, self, other)
        IN /\ status = "idle"
           /\ Len(calls) < MaxBackward
           /\ nodes' = g.nodes
           /\ ops' = g.ops
           /\ built' = g.built
           /\ vh' = vh \o [i \in 1..(Len(g.nodes) - Len(nodes)) |-> NodeHist]
           /\ oh' = oh \o [i \in 1..(Len(g.ops) - Len(ops)) |-> OpHist]
           /\ got' = got \o [i \in 1..(Len(g.nodes) - Len(nodes)) |-> FALSE]
           /\ status' = IF g = Graph THEN "error" ELSE "idle"
           /\ calls' = Append(calls, MethodCall(kind, self,
                                 IF g = Graph THEN "AssertionError" ELSE other))
           /\ UNCHANGED <<stack, root, passNo, fresh, pre, suspended>>

Next ==
    \/ Value_init
    \/ Value_arith
    \/ Value_arith_float
    \/ PassThroughOp_forward
    \/ Value_arith_other
    \/ Value_backward
    \/ Value_backward_calc
    \/ Value_backprop_setup
    \/ Value_backprop_calc
    \/ BinaryOp_backprop_setup
    \/ UnaryOp_backprop_setup
    \/ AddOp_backprop_calc
    \/ SubOp_backprop_calc
    \/ MulOp_backprop_calc
    \/ PassThroughOp_backprop_calc

Spec == Init /\ [][Next]_vars

\* ---------------------------------------------------------------- direct calls
\* Calls a program can make on the engine's methods besides backward().

\* n.backprop_calc(g) called by the program itself, with no setup pass before it
Value_backprop_calc_direct ==
    \E self \in 1..Len(nodes), g \in GradOutputs :
        /\ status = "idle"
        /\ Len(calls) < MaxBackward
        /\ stack' = <<Frame("v_calc", self, g)>>
        /\ status' = "running"
        /\ root' = 0
        /\ fresh' = (\A n \in 1..Len(nodes) : nodes[n].grad = None)
        /\ pre' = nodes
        /\ vh' = FreshNodeHist(Len(nodes))
        /\ oh' = FreshOpHist(Len(ops))
        /\ calls' = Append(calls, MethodCall("backprop_calc", self, "direct"))
        /\ UNCHANGED <<nodes, ops, built, passNo, got, suspended>>

\* UnaryOp.requires_grad: "self._in1._requires_grad or self._in2._requires_grad".
\* A UnaryOp has no attribute _in2, so the right operand of "or", evaluated
\* when the left one is False, raises AttributeError.
UnaryOp_requires_grad(in1_requires_grad) ==
    IF in1_requires_grad THEN "True" ELSE "AttributeError"

\* op.requires_grad() called on a PassThroughOp (the UnaryOp of the tests)
UnaryOp_requires_grad_call ==
    \E o \in 1..Len(ops) :
        /\ status = "idle"
        /\ Len(calls) < MaxBackward
        /\ ~IsBinary(ops[o].kind)
        /\ LET result == UnaryOp_requires_grad(nodes[ops[o]._in1]._requires_grad)
           IN /\ calls' = Append(calls, MethodCall("requires_grad", o, result))
              /\ status' = IF result = "AttributeError" THEN "error" ELSE "idle"
        /\ UNCHANGED <<nodes, ops, built, stack, root, passNo, fresh, pre, vh, oh,
                       got, suspended>>

\* The steps of a backward() call in progress.
Traverse ==
    \/ Value_backward_calc
    \/ Value_backprop_setup
    \/ Value_backprop_calc
    \/ BinaryOp_backprop_setup
    \/ UnaryOp_backprop_setup
    \/ AddOp_backprop_calc
    \/ SubOp_backprop_calc
    \/ MulOp_backprop_calc
    \/ PassThroughOp_backprop_calc

\* The calls the program makes on a graph it has built: backward(), and
\* backprop_calc and requires_grad called directly.
NextApi ==
    \/ Value_backward
    \/ Traverse
    \/ Value_backprop_calc_direct
    \/ UnaryOp_requires_grad_call

\* backward() is a chain of plain synchronous calls: once called, the
\* interpreter keeps executing it, so a traversal step that can be taken is
\* taken. The program itself may stop calling backward() at any time.
\* backward() calls on a graph the program has built
NextLive ==
    \/ Value_backward
    \/ Traverse

SpecLive == Init /\ [][NextLive]_vars /\ WF_vars(Traverse)

\* ---------------------------------------------------------------- two threads
\* A second thread calls backward() while the first thread's backward() is in
\* progress. stack is the call stack of the thread that holds the
\* interpreter, suspended the call stack of the other thread; the Values and
\* Operators are shared.

\* r.backward() called by a second thread, the first being inside backward()
Value_backward_concurrent ==
    \E self \in 1..Len(nodes) :
        /\ status = "running"
        /\ suspended = <<>>
        /\ Len(calls) = 1
        /\ calls[1].call = "backward"
        /\ passNo < MaxBackward
        /\ suspended' = stack
        /\ stack' = Call(<<Frame("backward", self, 0)>>, Frame("v_setup", self, 0))
        /\ passNo' = passNo + 1
        /\ calls' = Append(calls, MethodCall("backward", self, "concurrent"))
        /\ UNCHANGED <<nodes, ops, built, status, root, fresh, pre, vh, oh, got>>

\* The interpreter switches to the other thread between two steps.
Switch ==
    /\ status = "running"
    /\ stack # <<>>
    /\ suspended # <<>>
    /\ stack' = suspended
    /\ suspended' = stack
    /\ UNCHANGED <<nodes, ops, built, status, root, passNo, fresh, pre, calls, vh, oh, got>>

\* The running thread's backward() has returned; the other thread goes on.
Resume ==
    /\ status = "idle"
    /\ stack = <<>>
    /\ suspended # <<>>
    /\ stack' = suspended
    /\ suspended' = <<>>
    /\ status' = "running"
    /\ UNCHANGED <<nodes, ops, built, root, passNo, fresh, pre, calls, vh, oh, got>>

\* r.backward() called while no backward() is in progress, as the first or
\* the second of the two calls
Value_backward_sequential ==
    /\ Len(calls) <= 1
    /\ suspended = <<>>
    /\ Value_backward

\* Two backward() calls, by one thread or by two, on a graph the program has
\* built.
NextConc ==
    \/ Value_backward_sequential
    \/ Traverse
    \/ Value_backward_concurrent
    \/ Switch
    \/ Resume

SpecConc == Init /\ [][NextConc]_vars

SpecApi == Init /\ [][NextApi]_vars

\* ================================================================ properties
\* ---------------------------------------------------------------- vocabulary
Nodes == 1..Len(nodes)
Ops == 1..Len(ops)

\* A backward() call has returned normally, and it is the last one made.
Done == status = "idle" /\ root # 0

\* The operands the traversal can reach from n in one step (through n._op).
Operands(n) ==
    IF nodes[n]._op = NoOp THEN {}
    ELSE {ops[nodes[n]._op]._in1, ops[nodes[n]._op]._in2} \ {0}

RECURSIVE Closure(_)
Closure(S) ==
    LET T == S \cup UNION {Operands(n) : n \in S}
    IN IF T = S THEN S ELSE Closure(T)

\* The Values reachable from r, r included.
Reach(r) == Closure({r})

\* The operator whose forward() returned n, stored in n._op or not (0: a leaf).
Producer(n) ==
    IF \E o \in Ops : ops[o].out = n
    THEN CHOOSE o \in Ops : ops[o].out = n
    ELSE 0

IsLeaf(n) == Producer(n) = 0

\* d(out of operator o) / d(Value n), from the calculus: the sum over the
\* operand positions n occupies.
LocalPartial(o, n) ==
    LET a == ops[o]._in1
        b == ops[o]._in2
        at1 == IF a = n THEN 1 ELSE 0
        at2 == IF b = n THEN 1 ELSE 0
    IN CASE ops[o].kind = "add"  -> at1 + at2
         [] ops[o].kind = "sub"  -> at1 - at2
         [] ops[o].kind = "mul"  -> at1 * nodes[b]._v + at2 * nodes[a]._v
         [] ops[o].kind = "pass" -> at1

RECURSIVE TrueDerivative(_, _), PathSum(_, _, _)
\* d(out) / d(n): the sum over all paths from out to n of the product of the
\* local partial derivatives (operands are always created before results).
TrueDerivative(out, n) ==
    IF n = out THEN 1
    ELSE IF n > out THEN 0
    ELSE PathSum(out, n, n + 1)

PathSum(out, n, m) ==
    IF m > out THEN 0
    ELSE (IF IsLeaf(m) THEN 0
          ELSE TrueDerivative(out, m) * LocalPartial(Producer(m), n))
         + PathSum(out, n, m + 1)

\* ---------------------------------------------------------------- C1
\* C1: a Value with a producer forwards its gradient to the producer's
\* backprop_calc only at the step where its _backprop_count reaches exactly 0,
\* having received every contribution registered for it in the setup pass,
\* never after a partial contribution; in a pass over fresh nodes the value
\* forwarded is the sum of all contributions of the pass.
C1_ForwardsOnlyWhenComplete ==
    \A n \in Nodes :
        vh[n].fwd # None =>
            /\ nodes[n]._op # NoOp
            /\ nodes[n]._backprop_count = 0
            /\ vh[n].recv = vh[n].reg
            /\ fresh => vh[n].fwd = Some(vh[n].sum)

\* A fresh pass in which a Value with a producer and two registrations has forwarded.
C1_Witness ==
    \E n \in Nodes :
        /\ fresh
        /\ vh[n].fwd # None
        /\ vh[n].reg = 2
        /\ vh[n].recv = 2

\* ---------------------------------------------------------------- C2
\* C2: every Operator that produced a requires-grad Value reachable from the
\* output has its backprop_calc invoked exactly once per backward() call,
\* however many consumers its result has: never more than once while the call
\* runs, and exactly once when it has returned.
C2_CalcOncePerBackward ==
    \A o \in Ops :
        /\ oh[o].calcs <= 1
        /\ (Done /\ ops[o].out \in Reach(root) /\ nodes[ops[o].out]._requires_grad)
              => oh[o].calcs = 1

\* test_long_multipath_backprop after out.backward(): the PassThroughOp whose
\* result has two consumers counted one backprop_calc, and a.grad == 13.
C2_Witness ==
    /\ Done
    /\ passNo = 1
    /\ Len(nodes) = 7
    /\ root = 7
    /\ ops[1].kind = "pass"
    /\ vh[2].reg = 2
    /\ ops[1].backprop_count = 1
    /\ oh[1].calcs = 1
    /\ nodes[1].grad = Some(13)

\* ---------------------------------------------------------------- C3
\* C3: after one backward() on a requires-grad output with every node fresh,
\* the grad of every requires-grad Value reachable from the output equals the
\* true derivative of the output with respect to it (sum over paths of the
\* products of local partials), and the other Values have no grad.
C3_GradIsDerivative ==
    (Done /\ fresh /\ nodes[root]._requires_grad) =>
        \A n \in 1..Len(pre) :
            nodes[n].grad =
                IF n \in Reach(root) /\ nodes[n]._requires_grad
                THEN Some(TrueDerivative(root, n))
                ELSE None

\* test_short_multipath_backprop: out = (a + 3) * (a * 4) at a = 2 gives a.grad == 28.
C3_Witness ==
    /\ Done
    /\ fresh
    /\ Len(nodes) = 6
    /\ root = 6
    /\ nodes[6]._v = 40
    /\ vh[1].reg = 2
    /\ nodes[1].grad = Some(28)

\* ---------------------------------------------------------------- C4
\* The contribution table of the three operators, as the specification states it.
TableContribution(kind, i, g, v1, v2) ==
    CASE kind = "add" -> g
      [] kind = "sub" -> IF i = 1 THEN g ELSE 0 - g
      [] kind = "mul" -> IF i = 1 THEN g * v2 ELSE g * v1

\* C4: for distinct requires-grad leaves a, b: (a+b).backward() gives grads
\* (1, 1), (a-b).backward() gives (1, -1), (a*b).backward() gives
\* (value(b), value(a)); and every backprop_calc(g) of AddOp / SubOp / MulOp
\* contributes (g, g) / (g, -g) / (g*value(in2), g*value(in1)) to (in1, in2),
\* in that order.
C4_OperatorGradients ==
    /\ \A o \in Ops :
          LET a == ops[o]._in1
              b == ops[o]._in2
          IN (/\ Done /\ fresh /\ root = ops[o].out
              /\ IsBinary(ops[o].kind)
              /\ a # b /\ IsLeaf(a) /\ IsLeaf(b)
              /\ nodes[a]._requires_grad /\ nodes[b]._requires_grad)
             => /\ nodes[a].grad = Some(TableContribution(ops[o].kind, 1, 1, nodes[a]._v, nodes[b]._v))
                /\ nodes[b].grad = Some(TableContribution(ops[o].kind, 2, 1, nodes[a]._v, nodes[b]._v))
    /\ \A o \in Ops :
          IsBinary(ops[o].kind) =>
              \A i \in 1..Len(oh[o].sent) :
                  /\ i <= 2
                  /\ oh[o].sent[i][1] = (IF i = 1 THEN ops[o]._in1 ELSE ops[o]._in2)
                  /\ oh[o].sent[i][2] =
                        TableContribution(ops[o].kind, i, oh[o].gin[1],
                                          nodes[ops[o]._in1]._v, nodes[ops[o]._in2]._v)

\* (a * b).backward() has returned for requires-grad leaves a, b of different
\* values: the MulOp made both its calls and a.grad == value(b).
C4_Witness ==
    \E o \in Ops :
        /\ Done /\ fresh /\ root = ops[o].out
        /\ ops[o].kind = "mul"
        /\ ops[o]._in1 # ops[o]._in2
        /\ IsLeaf(ops[o]._in1) /\ IsLeaf(ops[o]._in2)
        /\ nodes[ops[o]._in1]._requires_grad /\ nodes[ops[o]._in2]._requires_grad
        /\ nodes[ops[o]._in1]._v # nodes[ops[o]._in2]._v
        /\ nodes[ops[o]._in1].grad = Some(nodes[ops[o]._in2]._v)
        /\ Len(oh[o].sent) = 2

\* ---------------------------------------------------------------- C5
\* C5: _backprop_count is never negative, and when backward() has returned it
\* is exactly 0 for every requires-grad Value the pass visited.
C5_CounterNonNegativeAndZero ==
    \A n \in Nodes :
        /\ nodes[n]._backprop_count >= 0
        /\ (Done /\ n <= Len(vh) /\ nodes[n]._requires_grad /\ vh[n].reg > 0)
              => nodes[n]._backprop_count = 0

\* A pass has returned in which a requires-grad Value was registered twice.
C5_Witness ==
    \E n \in Nodes :
        /\ Done
        /\ nodes[n]._requires_grad
        /\ vh[n].reg = 2
        /\ nodes[n]._backprop_count = 0

\* ---------------------------------------------------------------- C6
\* C6: grad is None unless the Value has requires_grad and backprop_calc was
\* invoked on it in some backward pass; after backward() on a requires-grad
\* output, among the Values reachable from it exactly the requires-grad ones
\* have a grad (in a + b with b not differentiable, a.grad is set, b.grad is None).
C6_GradAbsentUnlessAccumulated ==
    /\ \A n \in Nodes :
          nodes[n].grad # None => (nodes[n]._requires_grad /\ got[n])
    /\ (Done /\ nodes[root]._requires_grad) =>
          \A n \in Reach(root) :
              (nodes[n].grad # None) <=> nodes[n]._requires_grad

\* test_no_requires_grad after out.backward(): b was handed a contribution,
\* b.grad is None and a.grad == 1.
C6_Witness ==
    /\ Done
    /\ Len(nodes) = 3
    /\ root = 3
    /\ ops[1].kind = "add"
    /\ ~nodes[2]._requires_grad
    /\ got[2]
    /\ nodes[2].grad = None
    /\ nodes[1].grad = Some(1)

\* ---------------------------------------------------------------- C7
\* C7 (as stated): backward() on a Value with requires_grad = false performs no
\* traversal and leaves every Value as it was before the call: no operator's
\* backprop_setup or backprop_calc has run and grad and _backprop_count of
\* every Value, the Value's own included, are unchanged.
C7_NonDifferentiableBackwardIsNoOp ==
    (Done /\ ~nodes[root]._requires_grad) =>
        /\ \A n \in 1..Len(pre) : nodes[n] = pre[n]
        /\ \A o \in 1..Len(oh) : oh[o].setups = 0 /\ oh[o].calcs = 0

\* ---------------------------------------------------------------- C8
\* The operators the traversal can reach from r.
ReachOps(r) == {nodes[n]._op : n \in Reach(r)} \ {NoOp}

\* C8 (as stated): every Operator reachable from the output has its
\* backprop_setup run exactly once per backward() call, whatever the fan-out,
\* in every backward() call of a sequence: never more than once while the call
\* runs, and exactly once when it has returned.
C8_SetupOncePerBackward ==
    \A o \in 1..Len(oh) :
        /\ oh[o].setups <= 1
        /\ (Done /\ o \in ReachOps(root)) => oh[o].setups = 1

\* ---------------------------------------------------------------- C9
\* C9 (as stated): a Value with requires_grad = false never stores a producer,
\* however it was created.
C9_NoProducerWithoutRequiresGrad ==
    \A n \in Nodes : ~nodes[n]._requires_grad => nodes[n]._op = NoOp

\* ---------------------------------------------------------------- C10
\* C10: the result of AddOp / SubOp / MulOp.forward() has requires_grad exactly
\* when at least one of its two operands has; hence a requires-grad Value is a
\* leaf (marked explicitly) or has a requires-grad operand.
C10_RequiresGradIffAnOperandDoes ==
    /\ \A o \in Ops :
          IsBinary(ops[o].kind) =>
              (nodes[ops[o].out]._requires_grad <=>
                  (nodes[ops[o]._in1]._requires_grad \/ nodes[ops[o]._in2]._requires_grad))
    /\ \A n \in Nodes :
          (nodes[n]._requires_grad /\ ~IsLeaf(n)) =>
              \/ nodes[ops[Producer(n)]._in1]._requires_grad
              \/ (ops[Producer(n)]._in2 # 0 /\ nodes[ops[Producer(n)]._in2]._requires_grad)

\* The program's second call, self op 3.0 on a requires-grad leaf, has produced
\* a requires-grad result from one requires-grad and one coerced operand.
C10_Witness ==
    \E o \in Ops :
        /\ built = 2
        /\ IsBinary(ops[o].kind)
        /\ nodes[ops[o]._in1]._requires_grad
        /\ ~nodes[ops[o]._in2]._requires_grad
        /\ nodes[ops[o].out]._requires_grad
        /\ nodes[ops[o].out]._op = o

\* ---------------------------------------------------------------- C11
\* The last call the program made on the engine.
LastCall == calls[Len(calls)]

\* backprop_calc was called directly on a requires-grad Value whose counter
\* was 0, and the call is over.
UnregisteredCalcOver ==
    /\ calls # <<>>
    /\ LastCall.call = "backprop_calc"
    /\ status # "running"
    /\ nodes[LastCall.self]._requires_grad
    /\ pre[LastCall.self]._backprop_count = 0

C17_UnaryRequiresGradIffOperandDoes ==
    \A i \in 1..Len(calls) :
        calls[i].call = "requires_grad" =>
            calls[i].result =
                (IF nodes[ops[calls[i].self]._in1]._requires_grad
                 THEN "True" ELSE "False")

\* ---------------------------------------------------------------- C12
\* r1 and r2 are results of the same arithmetic operator on the same left
\* operand, each with its own non-differentiable leaf of the same value on the
\* right: n op f and n op Value(f).
Twin(r1, r2) ==
    /\ r1 # r2
    /\ Producer(r1) # 0
    /\ Producer(r2) # 0
    /\ LET o1 == ops[Producer(r1)]
           o2 == ops[Producer(r2)]
       IN /\ IsBinary(o1.kind)
          /\ o1.kind = o2.kind
          /\ o1._in1 = o2._in1
          /\ o1._in2 # o2._in2
          /\ \A c \in {o1._in2, o2._in2} :
                 /\ Producer(c) = 0
                 /\ ~nodes[c]._requires_grad
          /\ nodes[o1._in2]._v = nodes[o2._in2]._v

\* Two backward() calls were made, the first on r1 and the second on r2, and
\* both are over.
BothBackwardDone(r1, r2) ==
    /\ Done
    /\ Len(calls) = 2
    /\ calls[1].call = "backward" /\ calls[1].self = r1
    /\ calls[2].call = "backward" /\ calls[2].self = r2

\* What a pass added to a grad (0 when the grad stayed absent).
GradDelta(before, after) ==
    (IF after = None THEN 0 ELSE after[1]) - (IF before = None THEN 0 ELSE before[1])

\* C12: for each of +, -, * and every Value n and raw float f, n op f builds
\* what n op Value(f) builds: a fresh non-differentiable leaf holding f and a
\* result with the same value, requires_grad and producer; and backward() on
\* n op f and on n op Value(f) give a leaf n the same gradient and leave both
\* right-hand leaves without one.
C12_FloatCoercedToLeaf ==
    /\ status = "idle" =>
           \A kind \in {"add", "sub", "mul"}, self \in 1..Len(nodes), f \in RawFloats :
               LET gf == ValueOpFloat(Graph, kind, self, f)
                   gv == ValueOp(NewValue(Graph, f, FALSE), kind, self, Len(nodes) + 1)
                   r  == Len(nodes) + 2
               IN /\ gf.nodes = gv.nodes
                  /\ gf.ops = gv.ops
                  /\ Len(gf.nodes) = r
                  /\ gf.nodes[r - 1] = Value(f, FALSE, NoOp)
                  /\ gf.nodes[r]._v = ForwardValue(kind, nodes[self]._v, f)
                  /\ gf.nodes[r]._requires_grad = nodes[self]._requires_grad
    /\ (Done /\ Len(calls) = 2) =>
           LET r1 == calls[1].self
               r2 == calls[2].self
           IN (BothBackwardDone(r1, r2) /\ Twin(r1, r2)) =>
                  LET n == ops[Producer(r1)]._in1
                  IN /\ nodes[r1]._v = nodes[r2]._v
                     /\ nodes[r1]._requires_grad = nodes[r2]._requires_grad
                     /\ nodes[ops[Producer(r1)]._in2].grad = None
                     /\ nodes[ops[Producer(r2)]._in2].grad = None
                     /\ (Producer(n) = 0 =>
                             GradDelta(pre[n].grad, nodes[n].grad)
                                 = GradDelta(None, pre[n].grad))

\* v * 3.0 and v * Value(3.0) of test_value_mul, v requiring gradients:
\* backward() ran on the first and then on the second, and each added 3 to
\* v.grad.
C12_Witness ==
    /\ Len(ops) = 2
    /\ ops[1]._in2 = 2
    /\ nodes[2]._v = 3
    /\ Twin(3, 5)
    /\ BothBackwardDone(3, 5)
    /\ pre[1].grad = Some(3)
    /\ nodes[1].grad = Some(6)

\* ---------------------------------------------------------------- C13
\* The step is a call of +, - or * whose right-hand operand is neither a Value
\* nor a float.
RejectedOperandStep ==
    /\ Len(calls') = Len(calls) + 1
    /\ calls'[Len(calls')].call \in {"add", "sub", "mul"}

\* C13: +, - or * with a right-hand operand that is neither a Value nor a
\* float raises at the call: the step that makes the call ends in the error,
\* creates no Operator and no Value and changes no existing Value; so every
\* Operator backward() can meet has Values as operands and the error cannot
\* come up at backward time.
C13_RejectedAtCallSite ==
    /\ [][RejectedOperandStep =>
             /\ status' = "error"
             /\ calls'[Len(calls')].result = "AssertionError"
             /\ nodes' = nodes
             /\ ops' = ops
             /\ stack' = <<>>]_vars
    /\ [](\A o \in 1..Len(ops) :
              /\ ops[o]._in1 \in 1..Len(nodes)
              /\ IsBinary(ops[o].kind) => ops[o]._in2 \in 1..Len(nodes))

\* An operand was rejected by a Value of a graph that has Operators, after a
\* backward() call.
C13_Witness ==
    /\ Len(calls) = 2
    /\ calls[1].call = "backward"
    /\ calls[2].call \in {"add", "sub", "mul"}
    /\ calls[2].result = "AssertionError"
    /\ status = "error"
    /\ Len(ops) > 0
    /\ nodes[calls[2].self]._op # NoOp

\* ---------------------------------------------------------------- C14
\* C14: no step changes the value, requires_grad or producer of an existing
\* Value, nor the kind or operand references of an existing Operator; a
\* construction step (Value(...), +, -, *, forward()) changes no field at all
\* of the Values that exist, and only appends.
C14_ValuesImmutable ==
    [][/\ Len(nodes') >= Len(nodes)
       /\ Len(ops') >= Len(ops)
       /\ \A n \in 1..Len(nodes) :
              /\ nodes'[n]._v = nodes[n]._v
              /\ nodes'[n]._requires_grad = nodes[n]._requires_grad
              /\ nodes'[n]._op = nodes[n]._op
       /\ \A o \in 1..Len(ops) :
              /\ ops'[o].kind = ops[o].kind
              /\ ops'[o]._in1 = ops[o]._in1
              /\ ops'[o]._in2 = ops[o]._in2
       /\ (Len(nodes') > Len(nodes) =>
              /\ SubSeq(nodes', 1, Len(nodes)) = nodes
              /\ SubSeq(ops', 1, Len(ops)) = ops)]_vars

\* backward() ran on a Value and then on a Value built from it by an
\* operator; the second pass changed the gradient the first had left.
C14_Witness ==
    /\ Done
    /\ passNo = 2
    /\ nodes[root]._op # NoOp
    /\ Len(pre) = Len(nodes)
    /\ \E n \in 1..Len(nodes) :
           /\ n \in Operands(root)
           /\ calls[1].self = n
           /\ pre[n].grad = Some(1)
           /\ nodes[n].grad # pre[n].grad

\* ---------------------------------------------------------------- C15
\* The backward() call has returned normally: no frame is left and both
\* passes went through the root.
BackwardCompleted ==
    /\ status = "idle"
    /\ stack = <<>>
    /\ root # 0
    /\ vh[root].reg >= 1
    /\ got[root]

\* C15: a backward() call in progress always ends: it runs the setup and the
\* calc pass to completion and returns, or it stops with the AssertionError.
C15_BackwardTerminates ==
    (status = "running") ~> (BackwardCompleted \/ status = "error")

\* backward() has run to completion a second time on the output of
\* test_long_multipath_backprop2, every Operator having been through both
\* passes.
C15_Witness ==
    /\ BackwardCompleted
    /\ passNo = 2
    /\ nodes = [n \in 1..Len(nodes) |->
                   [Test_long_multipath2.nodes[n] EXCEPT
                        !.grad = nodes[n].grad,
                        !._backprop_count = nodes[n]._backprop_count]]
    /\ root = Len(nodes)
    /\ \A o \in 1..Len(ops) : oh[o].setups >= 1 /\ oh[o].calcs >= 1

\* ---------------------------------------------------------------- C16
\* The binary Operators whose two operands are one and the same Value.
SameOperandOps ==
    {o \in 1..Len(ops) : IsBinary(ops[o].kind) /\ ops[o]._in1 = ops[o]._in2}

\* What x + x, x - x, x * x leave in x.grad after one backward() on a graph
\* without gradients.
TwiceContribution(kind, v) ==
    CASE kind = "add" -> 2
      [] kind = "sub" -> 0
      [] kind = "mul" -> 2 * v

\* C16: an operand x given twice to one binary Operator is registered twice
\* before the Operator sends it anything, and receives two contributions;
\* in a backward() on the Operator's result x forwards to its producer only
\* once both have arrived, and on a graph without gradients a requires-grad x
\* ends with their sum: 2 for x + x, 0 for x - x, 2 * value(x) for x * x.
C16_SameOperandTwice ==
    \A o \in SameOperandOps :
        LET x == ops[o]._in1
        IN /\ (oh[o].sent # <<>> => vh[x].reg >= 2)
           /\ (root = ops[o].out /\ vh[x].fwd # None => vh[x].recv = 2)
           /\ (Done /\ root = ops[o].out /\ nodes[x]._requires_grad =>
                  /\ vh[x].reg = 2
                  /\ vh[x].recv = 2
                  /\ Len(oh[o].sent) = 2
                  /\ nodes[x]._backprop_count = 0
                  /\ (fresh => nodes[x].grad =
                                   Some(TwiceContribution(ops[o].kind, nodes[x]._v))))

\* out = x * x with x = a * 3.0 = 6: after out.backward() x.grad is 12, which
\* x forwarded to its producer after its second contribution, and a.grad is 36.
C16_Witness ==
    /\ Done
    /\ fresh
    /\ 2 \in SameOperandOps
    /\ root = ops[2].out
    /\ ops[2].kind = "mul"
    /\ nodes[3].grad = Some(12)
    /\ vh[3].fwd = Some(12)
    /\ vh[3].recv = 2
    /\ nodes[1].grad = Some(36)

\* ---------------------------------------------------------------- C19
\* The graph is the out = a + b of test_simple_add_backprop and the program
\* has called out.backward() twice and nothing else.
SimpleAddBackwardTwice ==
    /\ Len(nodes) = 3
    /\ ops = Test_simple_add.ops
    /\ \A n \in 1..3 :
           /\ nodes[n]._v = Test_simple_add.nodes[n]._v
           /\ nodes[n]._requires_grad
           /\ nodes[n]._op = Test_simple_add.nodes[n]._op
    /\ calls = <<MethodCall("backward", 3, "sequential"),
                 MethodCall("backward", 3, "sequential")>>

\* C19: backward() never resets grad. In every pass a requires-grad Value
\* holds the grad it had when the pass began plus the contributions received
\* since, a Value that received none keeps its grad, and what a Value
\* forwards to its producer is that cumulative grad. So two out.backward()
\* calls on out = a + b leave out.grad = 2 and a.grad = b.grad = 3, every
\* counter 0, and raise no error.
C19_GradAccumulatesAcrossPasses ==
    /\ (status # "idle" \/ root # 0) =>
           \A n \in 1..Len(pre) :
               /\ (vh[n].recv = 0 \/ ~nodes[n]._requires_grad =>
                       nodes[n].grad = pre[n].grad)
               /\ (vh[n].recv > 0 /\ nodes[n]._requires_grad =>
                       /\ nodes[n].grad # None
                       /\ GradDelta(pre[n].grad, nodes[n].grad) = vh[n].sum)
               /\ (vh[n].fwd # None => vh[n].fwd = nodes[n].grad)
    /\ SimpleAddBackwardTwice =>
           /\ status # "error"
           /\ (Done =>
                  /\ nodes[3].grad = Some(2)
                  /\ nodes[1].grad = Some(3)
                  /\ nodes[2].grad = Some(3)
                  /\ \A n \in 1..3 : nodes[n]._backprop_count = 0)

\* The second out.backward() on out = a + b has returned, out having
\* forwarded its cumulative grad 2.
C19_Witness ==
    /\ SimpleAddBackwardTwice
    /\ Done
    /\ pre[3].grad = Some(1)
    /\ vh[3].fwd = Some(2)
    /\ nodes[1].grad = Some(3)

\* ---------------------------------------------------------------- C18
\* The grad of every Value as a number (0 when absent).
GradNow == [n \in 1..Len(nodes) |-> IF nodes[n].grad = None THEN 0 ELSE nodes[n].grad[1]]

RECURSIVE PassGrad(_, _, _), PassSum(_, _, _, _)
\* The grad of n after one r.backward() run alone on grads prev: a
\* requires-grad Value reached from r adds to its grad 1 if it is r, and for
\* every Value m made from it that forwards (m requires gradients and stores
\* its producer), m's resulting grad times d(m)/d(n).
PassGrad(prev, r, n) ==
    IF n \in Reach(r) /\ nodes[n]._requires_grad
    THEN prev[n] + (IF n = r THEN 1 ELSE 0) + PassSum(prev, r, n, n + 1)
    ELSE prev[n]

PassSum(prev, r, n, m) ==
    IF m > r THEN 0
    ELSE (IF m \in Reach(r) /\ nodes[m]._requires_grad /\ nodes[m]._op # NoOp
          THEN LocalPartial(nodes[m]._op, n) * PassGrad(prev, r, m)
          ELSE 0)
         + PassSum(prev, r, n, m + 1)

\* The grads after r1.backward() and then r2.backward(), one after the other,
\* on a graph without gradients.
SequentialGrad(r1, r2) ==
    LET zero  == [n \in 1..Len(nodes) |-> 0]
        first == [n \in 1..Len(nodes) |-> PassGrad(zero, r1, n)]
    IN [n \in 1..Len(nodes) |-> PassGrad(first, r2, n)]

\* The program's only calls were two backward() calls, and both have returned.
TwoBackwardCallsOver ==
    /\ Len(calls) = 2
    /\ calls[1].call = "backward"
    /\ calls[2].call = "backward"
    /\ status = "idle"
    /\ stack = <<>>
    /\ suspended = <<>>

\* C18: two backward() calls give the gradients of running them one after
\* the other when they do run one after the other, and also, however their
\* steps interleave, when the graphs of the two outputs share no Value; in
\* that case no interleaving raises an error either. (With a shared
\* requires-grad intermediate Value the result depends on the interleaving:
\* C18_Witness.)
C18_RaceOnlyOnSharedValues ==
    /\ TwoBackwardCallsOver =>
           LET r1 == calls[1].self
               r2 == calls[2].self
           IN (calls[2].result = "sequential" \/ Reach(r1) \cap Reach(r2) = {}) =>
                  GradNow = SequentialGrad(r1, r2)
    /\ (Len(calls) = 2 /\ calls[1].call = "backward" /\ calls[2].call = "backward"
           /\ Reach(calls[1].self) \cap Reach(calls[2].self) = {}) =>
              status # "error"

\* Two interleaved backward() calls on outputs that share a requires-grad
\* intermediate Value have both returned without an error, and a shared
\* ancestor holds a grad that differs from the one the two calls leave when
\* run one after the other.
C18_Witness ==
    /\ TwoBackwardCallsOver
    /\ calls[2].result = "concurrent"
    /\ \E m \in Reach(calls[1].self) \cap Reach(calls[2].self) :
           /\ nodes[m]._requires_grad
           /\ nodes[m]._op # NoOp
           /\ \E n \in Reach(m) : GradNow[n] # SequentialGrad(calls[1].self, calls[2].self)[n]

====
